---- MODULE Spec2Model ----
(***************************************************************************)
(* Model of "Langchain Projects/loader_aq.py": a Streamlit script that is  *)
(* re-evaluated top to bottom on every user interaction.  One interaction  *)
(* is one run of the script: the widgets are read, the branch of the       *)
(* selected document type stages the upload in a temporary file, calls the *)
(* loader, and then (in the order the branch fixes) calls qa_chain.invoke  *)
(* and/or renders the content.  An uncaught exception ends the run and is  *)
(* rendered by the framework.  Text is a sequence of character codes.      *)
(***************************************************************************)
EXTENDS Integers, Sequences, FiniteSets, TLC

VARIABLES
    document_type,  \* st.selectbox value of this run
    user_question,  \* st.text_input value of this run (a character sequence)
    uploaded,       \* st.file_uploader value of this run (a file, or NoFile)
    url,            \* st.text_input "Enter URL:" of this run
    button,         \* whether the branch's st.button was clicked for this run
    pc,             \* position of the script: idle, save, load, qa, show
    temp_path,      \* local temp_path of this run (0: unbound)
    docs,           \* local docs of this run
    loaded,         \* whether loader.load() has returned in this run
    calls,          \* arguments of the qa_chain.invoke calls of this run
    result,         \* local result of this run
    answered,       \* whether qa_chain.invoke has returned in this run
    rendered,       \* elements written to the page in this run
    error,          \* the uncaught exception that ended this run, or "none"
    disk,           \* the temporary files on disk, indexed by path
    readPath,       \* the path the loader of this run read (0: none)
    runs,           \* number of runs of the script so far
    fileRuns        \* number of runs so far that had a file in the uploader

vars == <<document_type, user_question, uploaded, url, button, pc, temp_path,
          docs, loaded, calls, result, answered, rendered, error, disk,
          readPath, runs, fileRuns>>

\* ------------------------------------------------------------------ bounds
MaxRuns == 2      \* runs of the script in one behaviour
MaxExtra == 1     \* how far a text may exceed the character cap
MaxOver == 1      \* how far a CSV may exceed the row cap
MaxPages == 2     \* pages of a PDF

\* --------------------------------------------------------- program constants
CharCap == 2000   \* page_content[:2000]
RowCap == 20      \* docs[:20]
Newline == 10     \* "\n"

Text == "Text Document"
Web == "WebBase Document"
Csv == "CSV Document"
Pdf == "PDF Document"
DocumentTypes == {Text, Web, Csv, Pdf}

Min(a, b) == IF a < b THEN a ELSE b

\* ------------------------------------------------------------ input domains
\* A text of n characters whose character at i depends on i and on seed.
Chars(n, seed) == [i \in 1..n |-> 97 + ((i + seed) % 7)]

\* The page_content CSVLoader gives row r: "c: <r>" in decimal.
RowText(r) ==
    IF r < 10 THEN <<99, 58, 32, 48 + r>>
    ELSE <<99, 58, 32, 48 + (r \div 10), 48 + (r % 10)>>

\* An uploaded file is abstracted to its type and to whether its loader can
\* parse it; what the loader extracts from it is drawn from the sets below.
NoFile == [kind |-> "none", ok |-> FALSE]

TextFiles == {[kind |-> "txt", ok |-> o] : o \in BOOLEAN}
CsvFiles == {[kind |-> "csv", ok |-> o] : o \in BOOLEAN}
PdfFiles == {[kind |-> "pdf", ok |-> o] : o \in BOOLEAN}

FilesFor(dt) ==
    CASE dt = Text -> TextFiles
      [] dt = Csv -> CsvFiles
      [] dt = Pdf -> PdfFiles
      [] OTHER -> {}

Urls == {"", "https://example.com"}
Questions == {<<>>, <<63>>}
Answers == {<<>>, <<65>>, <<65, 66>>}

\* Lengths of a text, row counts of a CSV, lengths of a page: around the caps.
TextLens == {0} \cup ((CharCap - 1)..(CharCap + MaxExtra))
RowCounts == {0, 1, 3} \cup ((RowCap - 1)..(RowCap + MaxOver))
PageLens == {1, CharCap + 1}

\* ------------------------------------------------------------------ helpers
\* Python s[:n] for n >= 0.
Slice(s, n) == SubSeq(s, 1, Min(Len(s), n))

\* Python sep.join(parts).
RECURSIVE Join(_, _)
Join(sep, parts) ==
    IF parts = <<>> THEN <<>>
    ELSE IF Len(parts) = 1 THEN parts[1]
    ELSE parts[1] \o sep \o Join(sep, Tail(parts))

Document(content, source, index) ==
    [page_content |-> content, metadata |-> [source |-> source, row |-> index]]

\* TextLoader(path).load(): one Document holding the whole file.
TextLoad(path) == {<<Document(Chars(l, 0), path, 0)>> : l \in TextLens}

\* list(CSVLoader(path).lazy_load()): one Document per row, row index from 0.
CsvLoad(path) ==
    {[r \in 1..k |-> Document(RowText(r), path, r - 1)] : k \in RowCounts}

\* PyPDFLoader(path).load(): one Document per page, page index from 0.
PdfLoad(path) ==
    {[p \in 1..k |->
        Document(IF p = 1 THEN Chars(l, 0) ELSE Chars(p, p), path, p - 1)] :
        k \in 0..MaxPages, l \in PageLens}

\* WebBaseLoader(url).load(): one Document for the one URL.
WebLoad == {<<Document(Chars(l, 3), 0, 0)>> : l \in PageLens}

\* ------------------------------------------------------------ page elements
NoMeta == [source |-> 0, row |-> -1]
Element(kind, label, num, body, meta) ==
    [kind |-> kind, label |-> label, num |-> num, body |-> body, meta |-> meta]
Info(dt) == Element("info", dt, 0, <<>>, NoMeta)
Subheader(label, num) == Element("subheader", label, num, <<>>, NoMeta)
Write_(body) == Element("write", "", 0, body, NoMeta)
WriteMeta(meta) == Element("write", "Metadata:", 0, <<>>, meta)
Exception(name) == Element("exception", name, 0, <<>>, NoMeta)

\* ------------------------------------------------------------- the branches
IsUpload(dt) == dt \in {Text, Csv, Pdf}

\* `if text_file:` / `if url:` / `if csv_file:` / `if pdf_file:`
InputPresent(dt, f, u) == IF dt = Web THEN u # "" ELSE f # NoFile

\* Faulty variant of WantsAnswer: the question is not tested.
WantsAnswerAnyQuestion(dt, q, d) == d # <<>>

\* The condition under which each branch calls qa_chain.invoke.
WantsAnswer(dt, q, d) ==
    IF dt \in {Text, Pdf} THEN q # <<>> /\ d # <<>> ELSE q # <<>>

\* Evaluating the "text" argument raises IndexError on docs[0] of no docs.
ExcerptRaises(dt, d) == dt # Csv /\ d = <<>>

\* Faulty variant of FirstExcerpt: the content is passed without the [:2000].
FirstExcerptWhole(d) == d[1].page_content

\* "text": docs[0].page_content[:2000]
FirstExcerpt(d) == Slice(d[1].page_content, CharCap)

\* Faulty variant of CsvExcerpt: every row is joined, without the docs[:20].
CsvExcerptAll(d) ==
    Join(<<Newline>>, [i \in 1..Len(d) |-> d[i].page_content])

\* combined_text = "\n".join([d.page_content for d in docs[:20]])
CsvExcerpt(d) ==
    LET first == Slice(d, RowCap)
    IN Join(<<Newline>>, [i \in 1..Len(first) |-> first[i].page_content])

\* Faulty variant of PdfExcerpt: the PDF branch joins its first pages as the CSV
\* branch joins its first rows.
PdfExcerptJoined(d) ==
    LET first == Slice(d, RowCap)
    IN Join(<<Newline>>, [i \in 1..Len(first) |-> first[i].page_content])

\* "text": docs[0].page_content[:2000] of the PDF branch
PdfExcerpt(d) == FirstExcerpt(d)

Excerpt(dt, d) ==
    CASE dt = Csv -> CsvExcerpt(d)
      [] dt = Pdf -> PdfExcerpt(d)
      [] OTHER -> FirstExcerpt(d)

\* The elements the "show content" button of a branch writes.
RECURSIVE ShowCsv(_, _)
ShowCsv(d, i) ==
    IF i > Len(d) THEN <<>>
    ELSE <<Subheader("Row", i), Write_(d[i].page_content),
           WriteMeta(d[i].metadata)>> \o ShowCsv(d, i + 1)

ShowLabel(dt) ==
    CASE dt = Text -> "File Content"
      [] dt = Web -> "Webpage Content"
      [] OTHER -> "PDF Content"

ShowFirst(dt, d) == <<Subheader(ShowLabel(dt), 0), Write_(d[1].page_content)>>

\* Faulty variant of ShowElements: the CSV rows shown are capped like the excerpt.
ShowElementsCapped(dt, d) ==
    IF dt = Csv THEN ShowCsv(Slice(d, RowCap), 1) ELSE ShowFirst(dt, d)

ShowElements(dt, d) == IF dt = Csv THEN ShowCsv(d, 1) ELSE ShowFirst(dt, d)

\* The CSV branch shows the content before it answers; the others after.
AfterLoad(dt) == IF dt = Csv THEN "show" ELSE "qa"
AfterAnswer(dt) == IF dt = Csv THEN "idle" ELSE "show"
AfterShow(dt) == IF dt = Csv THEN "qa" ELSE "idle"

\* Faulty variant of save_uploaded_file: NamedTemporaryFile's default delete=True
\* removes the file when the with block closes it.
save_uploaded_file_deleted(d, f, run) == d

\* save_uploaded_file: NamedTemporaryFile(delete=False) makes a new file, the
\* upload's bytes are written to it, and it is left on disk.
save_uploaded_file(d, f, run) == Append(d, [bytes |-> f, run |-> run])

\* ---------------------------------------------------------------- the state
Init ==
    /\ document_type = Text
    /\ user_question = <<>>
    /\ uploaded = NoFile
    /\ url = ""
    /\ button = FALSE
    /\ pc = "idle"
    /\ temp_path = 0
    /\ docs = <<>>
    /\ loaded = FALSE
    /\ calls = <<>>
    /\ result = <<>>
    /\ answered = FALSE
    /\ rendered = <<>>
    /\ error = "none"
    /\ disk = <<>>
    /\ readPath = 0
    /\ runs = 0
    /\ fileRuns = 0

\* A user interaction re-runs the script: the widgets return their values and
\* the selected branch tests whether its input is there.
Rerun ==
    /\ pc = "idle"
    /\ runs < MaxRuns
    /\ \E dt \in DocumentTypes, q \in Questions, b \in BOOLEAN, u \in Urls :
       \E f \in FilesFor(dt) \cup {NoFile} :
        /\ (dt = Web => f = NoFile)
        /\ (dt # Web => u = "")
        /\ document_type' = dt
        /\ user_question' = q
        /\ uploaded' = f
        /\ url' = u
        /\ button' = b
        /\ rendered' = <<Info(dt)>>
        /\ pc' = IF ~InputPresent(dt, f, u) THEN "idle"
                 ELSE IF dt = Web THEN "load" ELSE "save"
        /\ fileRuns' = IF IsUpload(dt) /\ f # NoFile THEN fileRuns + 1
                       ELSE fileRuns
    /\ runs' = runs + 1
    /\ temp_path' = 0
    /\ docs' = <<>>
    /\ loaded' = FALSE
    /\ calls' = <<>>
    /\ result' = <<>>
    /\ answered' = FALSE
    /\ error' = "none"
    /\ readPath' = 0
    /\ UNCHANGED disk

\* temp_path = save_uploaded_file(file, suffix)
SaveUpload ==
    /\ pc = "save"
    /\ disk' = save_uploaded_file(disk, uploaded, runs)
    /\ temp_path' = Len(disk')
    /\ pc' = "load"
    /\ UNCHANGED <<document_type, user_question, uploaded, url, button, docs,
                   loaded, calls, result, answered, rendered, error, readPath,
                   runs, fileRuns>>

\* What the loader of the branch can return for the file at path.
Parse(dt, path) ==
    CASE dt = Text -> TextLoad(path)
      [] dt = Csv -> CsvLoad(path)
      [] OTHER -> PdfLoad(path)

Loaded(d) ==
    /\ docs' = d
    /\ loaded' = TRUE
    /\ pc' = AfterLoad(document_type)
    /\ UNCHANGED <<document_type, user_question, uploaded, url, button,
                   temp_path, calls, result, answered, rendered, error, disk,
                   runs, fileRuns>>

\* An uncaught exception ends the run; the framework renders it.
Raise(name) ==
    /\ error' = name
    /\ rendered' = Append(rendered, Exception(name))
    /\ pc' = "idle"

\* loader.load() returns the documents.
LoadOk ==
    /\ pc = "load"
    /\ IF document_type = Web
       THEN /\ readPath' = 0
            /\ \E d \in WebLoad : Loaded(d)
       ELSE /\ temp_path \in 1..Len(disk)
            /\ disk[temp_path].bytes.ok
            /\ readPath' = temp_path
            /\ \E d \in Parse(document_type, temp_path) : Loaded(d)

\* Faulty variant of LoadFail: the loader's exception is caught and shown, and the
\* branch goes on with no docs.
LoadFailIgnored ==
    /\ pc = "load"
    /\ IF document_type = Web
       THEN readPath' = 0
       ELSE /\ temp_path \in 1..Len(disk)
            /\ ~disk[temp_path].bytes.ok
            /\ readPath' = temp_path
    /\ error' = "ExtractionError"
    /\ rendered' = Append(rendered, Exception("ExtractionError"))
    /\ pc' = AfterLoad(document_type)
    /\ UNCHANGED <<document_type, user_question, uploaded, url, button,
                   temp_path, docs, loaded, calls, result, answered, disk,
                   runs, fileRuns>>

\* loader.load() raises: an unreachable URL, a file that does not parse.
LoadFail ==
    /\ pc = "load"
    /\ IF document_type = Web
       THEN readPath' = 0
       ELSE /\ temp_path \in 1..Len(disk)
            /\ ~disk[temp_path].bytes.ok
            /\ readPath' = temp_path
    /\ Raise("ExtractionError")
    /\ UNCHANGED <<document_type, user_question, uploaded, url, button,
                   temp_path, docs, loaded, calls, result, answered, disk,
                   runs, fileRuns>>

\* The question is empty (or, for Text and PDF, there are no docs): no call.
AnswerSkip ==
    /\ pc = "qa"
    /\ ~WantsAnswer(document_type, user_question, docs)
    /\ pc' = AfterAnswer(document_type)
    /\ UNCHANGED <<document_type, user_question, uploaded, url, button,
                   temp_path, docs, loaded, calls, result, answered, rendered,
                   error, disk, readPath, runs, fileRuns>>

\* result = qa_chain.invoke({...}) returns; the answer is written.
AnswerOk ==
    /\ pc = "qa"
    /\ WantsAnswer(document_type, user_question, docs)
    /\ IF ExcerptRaises(document_type, docs)
       THEN /\ Raise("IndexError")
            /\ UNCHANGED <<calls, result, answered>>
       ELSE \E a \in Answers :
            /\ calls' = Append(calls, [question |-> user_question,
                                       text |-> Excerpt(document_type, docs)])
            /\ result' = a
            /\ answered' = TRUE
            /\ rendered' = rendered \o <<Subheader("Answer", 0), Write_(a)>>
            /\ pc' = AfterAnswer(document_type)
            /\ UNCHANGED error
    /\ UNCHANGED <<document_type, user_question, uploaded, url, button,
                   temp_path, docs, loaded, disk, readPath, runs, fileRuns>>

\* Faulty variant of AnswerFail: the generator's exception is caught and an empty
\* answer is written.
AnswerFailAnswered ==
    /\ pc = "qa"
    /\ WantsAnswer(document_type, user_question, docs)
    /\ ~ExcerptRaises(document_type, docs)
    /\ calls' = Append(calls, [question |-> user_question,
                               text |-> Excerpt(document_type, docs)])
    /\ error' = "GenerationError"
    /\ result' = <<>>
    /\ answered' = TRUE
    /\ rendered' = rendered \o <<Subheader("Answer", 0), Write_(<<>>)>>
    /\ pc' = "idle"
    /\ UNCHANGED <<document_type, user_question, uploaded, url, button,
                   temp_path, docs, loaded, disk, readPath, runs, fileRuns>>

\* qa_chain.invoke({...}) raises: the network, the provider.
AnswerFail ==
    /\ pc = "qa"
    /\ WantsAnswer(document_type, user_question, docs)
    /\ ~ExcerptRaises(document_type, docs)
    /\ calls' = Append(calls, [question |-> user_question,
                               text |-> Excerpt(document_type, docs)])
    /\ Raise("GenerationError")
    /\ UNCHANGED <<document_type, user_question, uploaded, url, button,
                   temp_path, docs, loaded, result, answered, disk, readPath,
                   runs, fileRuns>>

\* `if st.button(...)`: the content is written when the button was clicked.
Show ==
    /\ pc = "show"
    /\ IF ~button
       THEN /\ pc' = AfterShow(document_type)
            /\ UNCHANGED <<rendered, error>>
       ELSE IF ExcerptRaises(document_type, docs)
       THEN Raise("IndexError")
       ELSE /\ rendered' = rendered \o ShowElements(document_type, docs)
            /\ pc' = AfterShow(document_type)
            /\ UNCHANGED error
    /\ UNCHANGED <<document_type, user_question, uploaded, url, button,
                   temp_path, docs, loaded, calls, result, answered, disk,
                   readPath, runs, fileRuns>>

Next ==
    \/ Rerun
    \/ SaveUpload
    \/ LoadOk
    \/ LoadFail
    \/ AnswerSkip
    \/ AnswerOk
    \/ AnswerFail
    \/ Show

Spec == Init /\ [][Next]_vars

\* ------------------------------------------------------------------ claims
\* The state of the interaction: Answered once qa_chain.invoke has returned,
\* Extracted once the loader has returned, AwaitingInput before.
InteractionState ==
    IF answered THEN "Answered"
    ELSE IF loaded THEN "Extracted"
    ELSE "AwaitingInput"

Surfaced(name) ==
    /\ error = name
    /\ rendered # <<>>
    /\ rendered[Len(rendered)] = Exception(name)

\* C1: for every document type, a run whose loader returned zero segments
\* makes no call to qa_chain.invoke.
C1_NoSegmentsNoCall == (loaded /\ docs = <<>>) => calls = <<>>

\* C2: a run whose loader raised shows the extraction failure and makes no
\* call to qa_chain.invoke, even with a question; no call precedes the
\* loader's return.
C2_ExtractionFailureNoCall ==
    /\ error = "ExtractionError" =>
          /\ Surfaced("ExtractionError")
          /\ calls = <<>>
          /\ ~loaded /\ ~answered
          /\ pc = "idle"
    /\ ~loaded => calls = <<>>

C2_Witness ==
    /\ error = "ExtractionError"
    /\ user_question # <<>>
    /\ document_type = Web

\* C9: a run calls qa_chain.invoke at most once, only with a non-empty
\* question (the one passed) and only after its loader returned; when the call
\* returns, the returned string is what is written under "Answer", once.
AnswerWrites ==
    {i \in 1..Len(rendered) : rendered[i] = Subheader("Answer", 0)}

C9_OneCallAnswerRendered ==
    /\ Len(calls) <= 1
    /\ calls # <<>> =>
          /\ user_question # <<>>
          /\ calls[1].question = user_question
          /\ loaded
    /\ answered =>
          /\ Len(calls) = 1
          /\ Cardinality(AnswerWrites) = 1
          /\ \A i \in AnswerWrites :
                i < Len(rendered) /\ rendered[i + 1] = Write_(result)
    /\ ~answered => AnswerWrites = {}

C9_Witness ==
    /\ answered
    /\ pc = "idle"
    /\ result = <<65, 66>>
    /\ button

\* C3: within a run the state only moves AwaitingInput -> Extracted, by the
\* loader returning, and Extracted -> Answered, by qa_chain.invoke returning
\* for a non-empty question; a loader or generator failure leaves the state
\* and the run's data as they were, shows the error and ends the run.
C3_StateMachine ==
    [][/\ InteractionState' # InteractionState =>
            \/ /\ runs' = runs + 1
               /\ InteractionState' = "AwaitingInput"
            \/ /\ InteractionState = "AwaitingInput"
               /\ InteractionState' = "Extracted"
               /\ pc = "load"
               /\ error' = "none"
            \/ /\ InteractionState = "Extracted"
               /\ InteractionState' = "Answered"
               /\ pc = "qa"
               /\ user_question # <<>>
               /\ Len(calls') = Len(calls) + 1
               /\ error' = "none"
       /\ (error = "none" /\ error' = "ExtractionError") =>
            /\ InteractionState = "AwaitingInput"
            /\ InteractionState' = "AwaitingInput"
            /\ Surfaced("ExtractionError")'
            /\ pc' = "idle"
            /\ docs' = docs /\ result' = result /\ calls' = calls
       /\ (error = "none" /\ error' = "GenerationError") =>
            /\ InteractionState = "Extracted"
            /\ InteractionState' = "Extracted"
            /\ Surfaced("GenerationError")'
            /\ pc' = "idle"
            /\ docs' = docs /\ result' = result
            /\ Len(calls') = 1
       /\ (error # "none" /\ runs' = runs) => UNCHANGED vars
      ]_vars

C3_Witness ==
    /\ error = "GenerationError"
    /\ InteractionState = "Extracted"
    /\ document_type = Pdf
    /\ button

\* C4: in the Text branch the text passed with a non-empty question is the
\* first 2000 characters of the content when it is longer than 2000
\* characters, and the whole content otherwise.
C4_TextTruncated ==
    (document_type = Text /\ calls # <<>>) =>
        LET content == docs[1].page_content
            text == calls[1].text
        IN /\ user_question # <<>>
           /\ Len(content) > CharCap => Len(text) = CharCap
           /\ Len(content) <= CharCap => Len(text) = Len(content)
           /\ \A i \in 1..Len(text) : text[i] = content[i]

C4_Witness ==
    /\ document_type = Text
    /\ calls # <<>>
    /\ Len(docs[1].page_content) > CharCap

\* Where row j starts in the newline-joined rows of d, less one.
RECURSIVE RowOffset(_, _)
RowOffset(d, j) ==
    IF j = 1 THEN 0
    ELSE RowOffset(d, j - 1) + Len(d[j - 1].page_content) + 1

\* text is rows 1..k of d, in order, a newline between two rows, nothing else.
IsRowsJoined(text, d, k) ==
    /\ Len(text) = IF k = 0 THEN 0 ELSE RowOffset(d, k + 1) - 1
    /\ \A j \in 1..k :
          LET off == RowOffset(d, j)
              row == d[j].page_content
          IN /\ \A i \in 1..Len(row) : text[off + i] = row[i]
             /\ j > 1 => text[off] = Newline

\* C5: in the CSV branch the text passed with a non-empty question is rows
\* 1..20 in order, newline-joined, when there are more than 20 rows, and all
\* the rows otherwise.
C5_CsvFirstRows ==
    (document_type = Csv /\ calls # <<>>) =>
        /\ user_question # <<>>
        /\ IsRowsJoined(calls[1].text, docs, Min(Len(docs), RowCap))

C5_Witness ==
    /\ document_type = Csv
    /\ calls # <<>>
    /\ Len(docs) > RowCap

Count(seq, c) == Cardinality({i \in 1..Len(seq) : seq[i] = c})

IsPrefixOfFirst(text, d) ==
    /\ Len(text) = Min(Len(d[1].page_content), CharCap)
    /\ text = SubSeq(d[1].page_content, 1, Len(text))

\* C6 as stated: CSV and PDF pass the concatenation of their first 20
\* segments; only Text and Web pass the first 2000 characters of one segment.
C6_MultiSegmentJoined ==
    calls # <<>> =>
        LET first == SubSeq(docs, 1, Min(Len(docs), RowCap))
            parts == [i \in 1..Len(first) |-> first[i].page_content]
        IN IF document_type \in {Csv, Pdf}
           THEN calls[1].text \in {Join(<<>>, parts), Join(<<Newline>>, parts)}
           ELSE IsPrefixOfFirst(calls[1].text, docs)

\* C6 as amended: only CSV passes its first 20 segments, newline-joined; Text,
\* Web and PDF pass the first 2000 characters of their first segment, and a
\* PDF's later pages are not passed.
C6_OnlyCsvJoined ==
    calls # <<>> =>
        IF document_type = Csv
        THEN LET k == Min(Len(docs), RowCap)
             IN /\ Count(calls[1].text, Newline) = IF k = 0 THEN 0 ELSE k - 1
                /\ Len(calls[1].text) = IF k = 0 THEN 0
                                        ELSE RowOffset(docs, k + 1) - 1
        ELSE IsPrefixOfFirst(calls[1].text, docs)

C6_Witness ==
    /\ document_type = Pdf
    /\ calls # <<>>
    /\ Len(docs) >= 2
    /\ Len(docs[1].page_content) > CharCap

\* The bodies written as content, in order.
ContentWrites ==
    LET w == SelectSeq(rendered, LAMBDA e : e.kind = "write" /\ e.label = "")
    IN [i \in 1..Len(w) |-> w[i].body]

\* C7: with an empty question, a run that extracted segments and whose show
\* button was clicked has written the text of every segment, in order.
C7_ShowRoundTrip ==
    (/\ button /\ user_question = <<>>
     /\ loaded /\ docs # <<>>
     /\ pc = "idle" /\ error = "none") =>
        ContentWrites = [i \in 1..Len(docs) |-> docs[i].page_content]

\* C8: in the CSV branch, with an empty question and "Show CSV Content"
\* clicked, the run writes one block per row, in row order, of the row's
\* header, content and metadata, and never calls qa_chain.invoke.
C8_CsvShowBlocks ==
    (document_type = Csv /\ user_question = <<>>) =>
        /\ calls = <<>> /\ ~answered
        /\ (button /\ loaded /\ pc = "idle" /\ error = "none") =>
              /\ Len(rendered) = 1 + 3 * Len(docs)
              /\ \A i \in 1..Len(docs) :
                    /\ rendered[3 * i - 1] = Subheader("Row", i)
                    /\ rendered[3 * i] = Write_(docs[i].page_content)
                    /\ rendered[3 * i + 1] = WriteMeta(docs[i].metadata)
                    /\ docs[i].metadata.row = i - 1

C8_Witness ==
    /\ document_type = Csv /\ user_question = <<>>
    /\ button /\ loaded /\ pc = "idle" /\ error = "none"
    /\ Len(docs) = 3

\* C10: every run with a file in the uploader creates exactly one new
\* temporary file, whether its loader then returns or raises; no step removes
\* or rewrites a temporary file; between runs the files on disk are as many as
\* the runs that had a file; the loader reads the file its own run created.
C10_TempFiles ==
    /\ [](/\ pc = "idle" => Len(disk) = fileRuns
          /\ pc # "idle" => Len(disk) \in {fileRuns - 1, fileRuns}
          /\ readPath # 0 =>
                /\ readPath \in 1..Len(disk)
                /\ disk[readPath].run = runs
                /\ disk[readPath].bytes = uploaded
          /\ \A i, j \in 1..Len(disk) : i < j => disk[i].run < disk[j].run)
    /\ [][/\ Len(disk') >= Len(disk)
          /\ SubSeq(disk', 1, Len(disk)) = disk
          /\ pc = "save" => Len(disk') = Len(disk) + 1
          /\ pc # "save" => disk' = disk]_vars

C10_Witness ==
    /\ pc = "idle"
    /\ runs = 2
    /\ Len(disk) = 2
    /\ error = "ExtractionError"
    /\ button

====
